---- MODULE Spec2Model ----
(***************************************************************************)
(* M/M/1 queueing simulation with Shortest-Job-First service               *)
(* (src/lab3_sjf.c).  The event list and the ready queue are modelled as   *)
(* the linked structures of the program: heaps of nodes addressed by       *)
(* positive integers, with NULL = 0, and the head / tail pointers of the   *)
(* source.  Every procedure of the program is an operator from the memory  *)
(* it reads to the memory it leaves; an action is one turn of the main     *)
(* loop (Remove_event, the clock update, the handler, free).               *)
(***************************************************************************)
EXTENDS Integers, Sequences, FiniteSets, TLC

(* ------------------------------------------------------------------------ *)
(* Program constants                                                        *)
(* ------------------------------------------------------------------------ *)
ARRIVAL == 0
COMPLETE == 1
EOS == 2
NULL == 0

(* ------------------------------------------------------------------------ *)
(* Bounds of the model                                                      *)
(* ------------------------------------------------------------------------ *)
\* long int is modelled as a two's-complement word of LongBits bits.
LongBits == 5
\* rand() returns a value in 0..RandMax (RAND_MAX scaled down).
RandMax == 2
\* the largest duration expon returns for a uniform value strictly inside (0,1).
MaxDur == 2
\* the largest simulation length Read_parms is given.
MaxSimLength == 3
\* arrivals are not processed once MaxCustomers customers have arrived.
MaxCustomers == 3
\* float is modelled with a significand of FloatBits bits.
FloatBits == 2
\* in the fair specification arrivals are not processed while MaxQueue
\* customers wait.
MaxQueue == 2
\* the event list harness keeps at most MaxPending events in the list.
MaxPending == 3
\* the ready queue harness keeps at most MaxWaiting customers in the queue.
MaxWaiting == 4
\* the list harnesses draw event times and bursts from 0..MaxKey.
MaxKey == 2

LONG_MIN == -(2 ^ (LongBits - 1))
LONG_MAX == (2 ^ (LongBits - 1)) - 1

\* long int arithmetic: the result of + or - as the machine word holds it.
Wrap(x) == ((x - LONG_MIN) % (2 ^ LongBits)) + LONG_MIN

\* the unit in the last place of a float of magnitude mag, from u upwards
RECURSIVE Ulp(_, _)
Ulp(mag, u) == IF mag < u * (2 ^ FloatBits) THEN u ELSE Ulp(mag, 2 * u)

\* the float nearest to the integer x, ties to the even significand: the
\* value a float variable holds after x is stored in it
FloatRound(x) ==
  LET mag == IF x < 0 THEN -x ELSE x
      u   == Ulp(mag, 1)
      q   == mag \div u
      rem == mag % u
      up  == IF 2 * rem > u \/ (2 * rem = u /\ q % 2 = 1) THEN q + 1 ELSE q
  IN  IF x < 0 THEN -(up * u) ELSE up * u

\* malloc: the address of a node that is not in use.
Malloc(used) == CHOOSE a \in 1..(Cardinality(used) + 1) :
                  /\ a \notin used
                  /\ \A b \in 1..(Cardinality(used) + 1) : b \notin used => a <= b

\* free: the node leaves the heap.
Free(heap, a) == [x \in (DOMAIN heap) \ {a} |-> heap[x]]

(* ------------------------------------------------------------------------ *)
(* expon                                                                    *)
(* ------------------------------------------------------------------------ *)
\* the value of (long) ceil(+infinity): the conversion is undefined in C; the
\* x86-64 build stores the "integer indefinite" value, LONG_MIN.
ConvOverflow == {LONG_MIN}

\* expon for the draw r = rand().  u = r / (float) RAND_MAX is 0 for r = 0 and
\* 1 for r = RAND_MAX (the division is by RAND_MAX, not RAND_MAX + 1), so
\* temp = 1 - u is 1 or 0: ceil(-time * log(1)) = 0 and ceil(-time * log(0))
\* = ceil(+infinity).  For u strictly inside (0,1) the logarithm is negative
\* and the ceiling is at least 1.
expon(r) == IF r = 0 THEN {0}
            ELSE IF r = RandMax THEN ConvOverflow
            ELSE 1..MaxDur

(* ------------------------------------------------------------------------ *)
(* Event list: struct event_node, top_event, last_event                     *)
(* A timeline value tl is [event_node, top_event, last_event].              *)
(* ------------------------------------------------------------------------ *)
EmptyHeap == [x \in {} |-> NULL]

\* the list is empty
EventListEmpty(tl) == tl.top_event = NULL

\* mutants of BelongsOnTop: the comparison reversed; the comparison not strict
BelongsOnTop_Lt(tl, etime) == tl.event_node[tl.top_event].ev_time < etime

BelongsOnTop_Ge(tl, etime) == tl.event_node[tl.top_event].ev_time >= etime

\* the new event belongs on top
BelongsOnTop(tl, etime) == tl.event_node[tl.top_event].ev_time > etime

\* the new event belongs at the bottom
BelongsAtBottom(tl, etime) == tl.event_node[tl.last_event].ev_time <= etime

\* the scan of the middle insertion stops at pos
ScanStops(tl, pos, etime) == tl.event_node[pos].ev_time > etime

\* while(pos != NULL && not_found): the node the scan stops at, or NULL.
RECURSIVE FindPos(_, _, _)
FindPos(tl, pos, etime) ==
  IF pos = NULL THEN NULL
  ELSE IF ScanStops(tl, pos, etime) THEN pos
  ELSE FindPos(tl, tl.event_node[pos].forward, etime)

Insert_event(tl, etype, etime, custind) ==
  LET loc  == Malloc(DOMAIN tl.event_node)
      node == [ev_type |-> etype, ev_time |-> etime, cust_index |-> custind,
               forward |-> NULL, backward |-> NULL]
      heap == (loc :> node) @@ tl.event_node
  IN  IF EventListEmpty(tl)
        THEN [event_node |-> heap, top_event |-> loc, last_event |-> loc]
      ELSE IF BelongsOnTop(tl, etime)
        THEN [event_node |->
                [heap EXCEPT ![tl.top_event].backward = loc,
                             ![loc].forward = tl.top_event],
              top_event |-> loc, last_event |-> tl.last_event]
      ELSE IF BelongsAtBottom(tl, etime)
        THEN [event_node |->
                [heap EXCEPT ![tl.last_event].forward = loc,
                             ![loc].backward = tl.last_event],
              top_event |-> tl.top_event, last_event |-> loc]
      ELSE LET pos == FindPos(tl, tl.top_event, etime)
           IN  IF pos = NULL
                 \* "problems in insert event routine": loc stays allocated, unlinked
                 THEN [event_node |-> heap, top_event |-> tl.top_event,
                       last_event |-> tl.last_event]
                 ELSE LET back == heap[pos].backward
                      IN  [event_node |->
                             [heap EXCEPT ![loc].forward = pos,
                                          ![loc].backward = back,
                                          ![back].forward = loc,
                                          ![pos].backward = loc],
                           top_event |-> tl.top_event,
                           last_event |-> tl.last_event]

\* mutant of Remove_event: the list is marked empty after every removal
Remove_event_Clear(tl) ==
  [tl |-> [event_node |-> tl.event_node, top_event |-> NULL,
           last_event |-> NULL],
   ev_ptr |-> tl.top_event]

\* Remove_event: [tl |-> the list left, ev_ptr |-> the node returned or NULL].
\* The node returned stays allocated until the caller frees it.
Remove_event(tl) ==
  IF tl.last_event = NULL
    THEN [tl |-> tl, ev_ptr |-> NULL]
  ELSE IF tl.top_event = tl.last_event
    THEN [tl |-> [event_node |-> tl.event_node, top_event |-> NULL,
                  last_event |-> NULL],
          ev_ptr |-> tl.top_event]
  ELSE LET ev_ptr == tl.top_event
           newtop == tl.event_node[ev_ptr].forward
       IN  [tl |-> [event_node |->
                      [tl.event_node EXCEPT ![newtop].backward = NULL,
                                            ![ev_ptr].forward = NULL],
                    top_event |-> newtop, last_event |-> tl.last_event],
            ev_ptr |-> ev_ptr]

\* the nodes reached from a along the forward links, in order (at most n of them)
RECURSIVE Forward(_, _, _)
Forward(heap, a, n) ==
  IF a = NULL \/ n = 0 \/ a \notin DOMAIN heap THEN <<>>
  ELSE <<a>> \o Forward(heap, heap[a].forward, n - 1)

(* ------------------------------------------------------------------------ *)
(* Ready queue: struct Queue, struct Queue_struct sjf, struct Custs         *)
(* A queue value q is [Queue, q_head, q_last]; custs is the heap of         *)
(* customer records [arrive_time, CPU_time].                                *)
(* ------------------------------------------------------------------------ *)
\* the CPU burst of the customer a queue node refers to
Burst(q, custs, n) == custs[q.Queue[n].cust_index].CPU_time

\* mutants of BelongsAtHead: the comparison reversed; the comparison not strict
BelongsAtHead_Gt(q, custs, pcust) ==
  custs[pcust].CPU_time > Burst(q, custs, q.q_head)

BelongsAtHead_Le(q, custs, pcust) ==
  custs[pcust].CPU_time <= Burst(q, custs, q.q_head)

\* the new customer goes to the beginning of the queue
BelongsAtHead(q, custs, pcust) ==
  custs[pcust].CPU_time < Burst(q, custs, q.q_head)

\* mutant of BelongsAtEnd: the comparison strict
BelongsAtEnd_Gt(q, custs, pcust) ==
  custs[pcust].CPU_time > Burst(q, custs, q.q_last)

\* mutant of BelongsAtEnd: the comparison reversed
BelongsAtEnd_Le(q, custs, pcust) ==
  custs[pcust].CPU_time <= Burst(q, custs, q.q_last)

\* the new customer goes to the end of the queue
BelongsAtEnd(q, custs, pcust) ==
  custs[pcust].CPU_time >= Burst(q, custs, q.q_last)

\* the scan inserts the new customer in front of following_node
InsertBefore(q, custs, pcust, following_node) ==
  custs[pcust].CPU_time < Burst(q, custs, following_node)

\* do { ... } while(searching): the node after which the new node is linked,
\* or NULL when following_node runs off the end of the queue (the loop then
\* reads following_node->cust_index through a null pointer).
RECURSIVE ScanQueue(_, _, _, _, _)
ScanQueue(q, custs, pcust, previous_node, following_node) ==
  IF following_node = NULL THEN NULL
  ELSE IF InsertBefore(q, custs, pcust, following_node) THEN previous_node
  ELSE ScanQueue(q, custs, pcust, q.Queue[previous_node].next,
                 q.Queue[following_node].next)

\* Puton_queue: [q |-> the queue left, fault |-> a null pointer was read].
Puton_queue(q, custs, pcust) ==
  LET newnode == Malloc(DOMAIN q.Queue)
      heap    == (newnode :> [cust_index |-> pcust, next |-> NULL]) @@ q.Queue
  IN  IF q.q_last = NULL
        THEN [q |-> [Queue |-> heap, q_head |-> newnode, q_last |-> newnode],
              fault |-> FALSE]
      ELSE IF BelongsAtHead(q, custs, pcust)
        THEN [q |-> [Queue |-> [heap EXCEPT ![newnode].next = q.q_head],
                     q_head |-> newnode, q_last |-> q.q_last],
              fault |-> FALSE]
      ELSE IF BelongsAtEnd(q, custs, pcust)
        THEN [q |-> [Queue |-> [heap EXCEPT ![q.q_last].next = newnode],
                     q_head |-> q.q_head, q_last |-> newnode],
              fault |-> FALSE]
      ELSE LET prev == ScanQueue(q, custs, pcust, q.q_head,
                                 q.Queue[q.q_head].next)
           IN  IF prev = NULL
                 THEN [q |-> [Queue |-> heap, q_head |-> q.q_head,
                              q_last |-> q.q_last],
                       fault |-> TRUE]
                 ELSE [q |-> [Queue |->
                                [heap EXCEPT ![newnode].next = heap[prev].next,
                                             ![prev].next = newnode],
                              q_head |-> q.q_head, q_last |-> q.q_last],
                       fault |-> FALSE]

\* mutant of Takoff_queue: the head customer is returned but stays in the queue
Takoff_queue_Peek(q) ==
  IF q.q_head = NULL THEN [q |-> q, index |-> NULL]
  ELSE [q |-> q, index |-> q.Queue[q.q_head].cust_index]

\* Takoff_queue: [q |-> the queue left, index |-> the customer or NULL].
\* When the last node is taken the code unlinks it without free(loc); the node
\* is unreachable from then on and is dropped from the heap here as well.
Takoff_queue(q) ==
  IF q.q_head = NULL
    THEN [q |-> q, index |-> NULL]
  ELSE LET loc   == q.q_head
           index == q.Queue[loc].cust_index
       IN  IF q.q_head = q.q_last
             THEN [q |-> [Queue |-> Free(q.Queue, loc), q_head |-> NULL,
                          q_last |-> NULL],
                   index |-> index]
             ELSE [q |-> [Queue |-> Free(q.Queue, loc),
                          q_head |-> q.Queue[loc].next, q_last |-> q.q_last],
                   index |-> index]

\* the nodes reached from a along the next links, in order (at most n of them)
RECURSIVE Next_links(_, _, _)
Next_links(heap, a, n) ==
  IF a = NULL \/ n = 0 \/ a \notin DOMAIN heap THEN <<>>
  ELSE <<a>> \o Next_links(heap, heap[a].next, n - 1)

(* ------------------------------------------------------------------------ *)
(* State                                                                    *)
(* ------------------------------------------------------------------------ *)
VARIABLES
  pc,               \* where main is: "start", "loop", "done", "fault"
  event_node,       \* heap of event nodes
  top_event,        \* head of the event list
  last_event,       \* end of the event list
  Queue,            \* heap of queue nodes
  sjf,              \* [q_head, q_last]
  Custs,            \* heap of customer records
  accum_resp_time,  \* accumulated response time
  num_resp_time,    \* number of customers that left the system
  sim_length,       \* length of the simulation
  clock,            \* simulation clock
  busy,             \* the server is busy
  started,          \* history: the last start_service of the turn just made
  resp,             \* history: temp of the depart of the turn just made
  order,            \* history: the nodes of the list under test, oldest first
  ret               \* history: what the last removal of the list under test saw

vars == <<pc, event_node, top_event, last_event, Queue, sjf, Custs,
          accum_resp_time, num_resp_time, sim_length, clock, busy,
          started, resp, order, ret>>

NoStart == [on |-> FALSE, index |-> NULL, burst |-> 0, waiting |-> {}]
NoResp  == [on |-> FALSE, temp |-> 0, empty |-> FALSE]
NoRet   == [on |-> FALSE, key |-> 0, older |-> {}, younger |-> {}]

\* the memory the procedures work on, as one value
Memory == [tl      |-> [event_node |-> event_node, top_event |-> top_event,
                        last_event |-> last_event],
           q       |-> [Queue |-> Queue, q_head |-> sjf.q_head,
                        q_last |-> sjf.q_last],
           custs   |-> Custs,
           accum_resp_time |-> accum_resp_time,
           num_resp_time   |-> num_resp_time,
           clock   |-> clock,
           busy    |-> busy,
           fault   |-> FALSE,
           started |-> NoStart,
           resp    |-> NoResp]

\* the variables take the memory m; main is at p unless a null pointer was read
Store(m, p) ==
  /\ event_node' = m.tl.event_node
  /\ top_event' = m.tl.top_event
  /\ last_event' = m.tl.last_event
  /\ Queue' = m.q.Queue
  /\ sjf' = [q_head |-> m.q.q_head, q_last |-> m.q.q_last]
  /\ Custs' = m.custs
  /\ accum_resp_time' = m.accum_resp_time
  /\ num_resp_time' = m.num_resp_time
  /\ clock' = m.clock
  /\ busy' = m.busy
  /\ started' = m.started
  /\ resp' = m.resp
  /\ pc' = IF m.fault THEN "fault" ELSE p

(* ------------------------------------------------------------------------ *)
(* Procedures of the driver                                                 *)
(* ------------------------------------------------------------------------ *)
\* the bursts of the customers waiting in the queue of memory m
WaitingBursts(m) ==
  LET nodes == Next_links(m.q.Queue, m.q.q_head, Cardinality(DOMAIN m.q.Queue))
  IN  {Burst(m.q, m.custs, nodes[i]) : i \in 1..Len(nodes)}

\* Gen_arrival, with time the value expon(iarrive_time) returned.  The fields
\* of the new customer record are not set here and are not read before arrive
\* sets them.
Gen_arrival(m, time) ==
  LET index == Malloc(DOMAIN m.custs)
  IN  [m EXCEPT
         !.custs = (index :> [arrive_time |-> 0, CPU_time |-> 0]) @@ m.custs,
         !.tl = Insert_event(m.tl, ARRIVAL, Wrap(m.clock + time), index)]

\* mutant of Gen_departure: the event time is the burst, the clock not added
Gen_departure_NoClock(m, index) ==
  IF index = NULL THEN [m EXCEPT !.fault = TRUE]
  ELSE [m EXCEPT !.tl = Insert_event(m.tl, COMPLETE,
                                     m.custs[index].CPU_time, index)]

\* Gen_departure: index->CPU_time is read, through a null pointer if index is NULL
Gen_departure(m, index) ==
  IF index = NULL THEN [m EXCEPT !.fault = TRUE]
  ELSE LET time == m.custs[index].CPU_time
       IN  [m EXCEPT !.tl = Insert_event(m.tl, COMPLETE, Wrap(time + m.clock),
                                         index)]

start_service(m) ==
  LET r  == Takoff_queue(m.q)
      m1 == [m EXCEPT !.q = r.q, !.busy = TRUE,
                      !.started = [on |-> TRUE, index |-> r.index,
                                   burst |-> IF r.index = NULL THEN 0
                                             ELSE m.custs[r.index].CPU_time,
                                   waiting |-> WaitingBursts(m)]]
  IN  Gen_departure(m1, r.index)

\* mutant of ServerBusy: the test is on the queue instead of the server
ServerBusy_QueueEmpty(m) == m.q.q_head = NULL

\* mutant of ServerBusy: service is also put off while another ARRIVAL of the
\* same clock value is pending
ServerBusy_SameTick(m) ==
  \/ m.busy
  \/ /\ m.tl.top_event # NULL
     /\ m.tl.event_node[m.tl.top_event].ev_type = ARRIVAL
     /\ m.tl.event_node[m.tl.top_event].ev_time = m.clock

\* the server is busy when arrive tests it
ServerBusy(m) == m.busy

\* arrive, with time and cpu the values the two calls of expon returned
arrive(m, ev_num, time, cpu) ==
  LET m1    == Gen_arrival(m, time)
      index == m1.tl.event_node[ev_num].cust_index
      m2    == [m1 EXCEPT !.custs[index] = [arrive_time |-> m1.clock,
                                            CPU_time |-> cpu]]
      p     == Puton_queue(m2.q, m2.custs, index)
      m3    == [m2 EXCEPT !.q = p.q, !.fault = p.fault]
  IN  IF m3.fault THEN m3
      ELSE IF ~ServerBusy(m3) THEN start_service(m3)
      ELSE m3

\* mutant of QueueNonEmpty: the test left out
QueueNonEmpty_Always(m) == TRUE

\* mutant of QueueNonEmpty: the test reversed
QueueNonEmpty_Eq(m) == m.q.q_head = NULL

\* the queue is non-empty when depart tests it
QueueNonEmpty(m) == m.q.q_head # NULL

\* accum_resp_time += temp; num_resp_time++; both variables are float
Accumulate(m, temp) ==
  [m EXCEPT !.accum_resp_time = FloatRound(@ + FloatRound(temp)),
            !.num_resp_time = FloatRound(@ + 1)]

\* mutant of SetIdle: the assignment left out
SetIdle_Skip(m) == m

\* busy = FALSE
SetIdle(m) == [m EXCEPT !.busy = FALSE]

depart(m, ev_num) ==
  LET index == m.tl.event_node[ev_num].cust_index
      temp  == Wrap(m.clock - m.custs[index].arrive_time)
      m1    == [Accumulate(SetIdle(m), temp) EXCEPT
                  !.resp = [on |-> TRUE, temp |-> temp,
                            empty |-> m.q.q_head = NULL],
                  !.custs = Free(m.custs, index)]
  IN  IF QueueNonEmpty(m1) THEN start_service(m1) ELSE m1

\* free(event) at the end of a turn of the main loop
FreeEvent(m, event) == [m EXCEPT !.tl.event_node = Free(@, event)]

\* event = Remove_event(); clock = event->ev_time;
NextEvent(m) ==
  LET r == Remove_event(m.tl)
  IN  [m EXCEPT !.tl = r.tl, !.clock = m.tl.event_node[r.ev_ptr].ev_time]

(* ------------------------------------------------------------------------ *)
(* main                                                                     *)
(* ------------------------------------------------------------------------ *)
Init ==
  /\ pc = "start"
  /\ event_node = EmptyHeap
  /\ top_event = NULL
  /\ last_event = NULL
  /\ Queue = EmptyHeap
  /\ sjf = [q_head |-> NULL, q_last |-> NULL]
  /\ Custs = EmptyHeap
  /\ accum_resp_time = 0
  /\ num_resp_time = 0
  /\ sim_length = 0
  /\ clock = 0
  /\ busy = FALSE
  /\ started = NoStart
  /\ resp = NoResp
  /\ order = <<>>
  /\ ret = NoRet

\* Read_parms, Insert_event(EOS, sim_length, NULL), Gen_arrival
Prime ==
  /\ pc = "start"
  /\ \E len \in 1..MaxSimLength, r \in 0..RandMax :
       \E time \in expon(r) :
         /\ sim_length' = len
         /\ Store(Gen_arrival([Memory EXCEPT
                                 !.tl = Insert_event(@, EOS, len, NULL)],
                              time),
                  "loop")
  /\ UNCHANGED <<order, ret>>

\* the type of the event the next turn of the loop removes
TopType == event_node[top_event].ev_type

\* the customers that have arrived: those that left, those waiting and the
\* one in service
Arrived ==
  num_resp_time + Len(Next_links(Queue, sjf.q_head, Cardinality(DOMAIN Queue)))
                + (IF busy THEN 1 ELSE 0)

\* case ARRIVAL
DispatchArrival ==
  /\ pc = "loop" /\ top_event # NULL /\ TopType = ARRIVAL
  /\ Arrived < MaxCustomers
  /\ \E r1 \in 0..RandMax, r2 \in 0..RandMax :
       \E time \in expon(r1), cpu \in expon(r2) :
         Store(FreeEvent(arrive(NextEvent(Memory), top_event, time, cpu),
                         top_event),
               "loop")
  /\ UNCHANGED <<sim_length, order, ret>>

\* case COMPLETE
DispatchDeparture ==
  /\ pc = "loop" /\ top_event # NULL /\ TopType = COMPLETE
  /\ Store(FreeEvent(depart(NextEvent(Memory), top_event), top_event), "loop")
  /\ UNCHANGED <<sim_length, order, ret>>

\* case EOS: Process_statistics(); not_done = FALSE;
DispatchEOS ==
  /\ pc = "loop" /\ top_event # NULL /\ TopType = EOS
  /\ Store(FreeEvent(NextEvent(Memory), top_event), "done")
  /\ UNCHANGED <<sim_length, order, ret>>

Next == Prime \/ DispatchArrival \/ DispatchDeparture \/ DispatchEOS

Spec == Init /\ [][Next]_vars

(* ------------------------------------------------------------------------ *)
(* main as a program that keeps running: every turn of the loop that can be *)
(* made is made.  The draws are those with u < 1, so that expon returns a   *)
(* value it computes, and the number of waiting customers is bounded        *)
(* instead of the number of arrivals.                                       *)
(* ------------------------------------------------------------------------ *)
Draws == 0..(RandMax - 1)

QueueLength == Len(Next_links(Queue, sjf.q_head, Cardinality(DOMAIN Queue)))

\* the next turn is an arrival the bound on the queue keeps out of the model
AtBound ==
  pc = "loop" /\ top_event # NULL /\ TopType = ARRIVAL /\ QueueLength >= MaxQueue

FairPrime ==
  /\ pc = "start"
  /\ \E len \in 1..MaxSimLength, r \in Draws :
       \E time \in expon(r) :
         /\ sim_length' = len
         /\ Store(Gen_arrival([Memory EXCEPT
                                 !.tl = Insert_event(@, EOS, len, NULL)],
                              time),
                  "loop")
  /\ UNCHANGED <<order, ret>>

FairArrival ==
  /\ pc = "loop" /\ top_event # NULL /\ TopType = ARRIVAL
  /\ QueueLength < MaxQueue
  /\ \E r1 \in Draws, r2 \in Draws :
       \E time \in expon(r1), cpu \in expon(r2) :
         Store(FreeEvent(arrive(NextEvent(Memory), top_event, time, cpu),
                         top_event),
               "loop")
  /\ UNCHANGED <<sim_length, order, ret>>

NextFair == FairPrime \/ FairArrival \/ DispatchDeparture \/ DispatchEOS

\* a turn of the loop can be made: the guards of the four actions, written out
CanStep ==
  \/ pc = "start"
  \/ pc = "loop" /\ top_event # NULL /\ ~AtBound

\* main keeps running: weak fairness of the turns of the loop.  For the two
\* short actions it is stated with WF; for the loop as a whole it is stated
\* with CanStep in place of ENABLED <<NextFair>>_vars and, every step that
\* changes the state being a turn of the loop, with <<TRUE>>_vars in place
\* of <<NextFair>>_vars: a run in which a turn can be made from some point
\* on makes turns again and again.
SpecFair ==
  /\ Init /\ [][NextFair]_vars
  /\ WF_vars(FairPrime) /\ WF_vars(DispatchEOS)
  /\ ([]<>(~CanStep) \/ []<><<TRUE>>_vars)

(* ------------------------------------------------------------------------ *)
(* The event list on its own: any sequence of Insert_event and Remove_event *)
(* ------------------------------------------------------------------------ *)
Timeline == [event_node |-> event_node, top_event |-> top_event,
             last_event |-> last_event]

EventKinds == {ARRIVAL, COMPLETE, EOS}

\* the elements of a sequence
Range(s) == {s[i] : i \in 1..Len(s)}

\* the place of a in the sequence s
Place(s, a) == CHOOSE i \in 1..Len(s) : s[i] = a

\* s without a
Without(s, a) == SelectSeq(s, LAMBDA x : x # a)

\* what a removal of node a with key k saw: the nodes of the list with the
\* same key (the set same), split into those inserted before a and those
\* inserted after it
Seen(a, k, same) ==
  [on |-> TRUE, key |-> k,
   older   |-> {b \in same : Place(order, b) < Place(order, a)},
   younger |-> {b \in same : Place(order, b) > Place(order, a)}]

TL_Insert ==
  /\ Len(order) < MaxPending
  /\ \E etype \in EventKinds, etime \in 0..MaxKey :
       LET tl == Insert_event(Timeline, etype, etime, NULL)
       IN  /\ event_node' = tl.event_node
           /\ top_event' = tl.top_event
           /\ last_event' = tl.last_event
  /\ order' = Append(order, Malloc(DOMAIN event_node))
  /\ ret' = NoRet
  /\ UNCHANGED <<pc, Queue, sjf, Custs, accum_resp_time, num_resp_time,
                 sim_length, clock, busy, started, resp>>

\* Remove_event and the free(event) of its caller
TL_Remove ==
  /\ top_event # NULL
  /\ LET r == Remove_event(Timeline)
         k == event_node[r.ev_ptr].ev_time
     IN  /\ event_node' = Free(r.tl.event_node, r.ev_ptr)
         /\ top_event' = r.tl.top_event
         /\ last_event' = r.tl.last_event
         /\ ret' = Seen(r.ev_ptr, k,
                      {b \in Range(order) : event_node[b].ev_time = k})
         /\ order' = Without(order, r.ev_ptr)
  /\ UNCHANGED <<pc, Queue, sjf, Custs, accum_resp_time, num_resp_time,
                 sim_length, clock, busy, started, resp>>

NextTimeline == TL_Insert \/ TL_Remove

SpecTimeline == Init /\ [][NextTimeline]_vars

(* ------------------------------------------------------------------------ *)
(* The ready queue on its own: any sequence of Puton_queue and Takoff_queue *)
(* ------------------------------------------------------------------------ *)
ReadyQueue == [Queue |-> Queue, q_head |-> sjf.q_head, q_last |-> sjf.q_last]

\* a customer with the given burst is created and put on the queue
Q_Puton ==
  /\ pc = "start"
  /\ Len(order) < MaxWaiting
  /\ \E cpu \in 0..MaxKey :
       LET pcust == Malloc(DOMAIN Custs)
           custs == (pcust :> [arrive_time |-> 0, CPU_time |-> cpu]) @@ Custs
           p     == Puton_queue(ReadyQueue, custs, pcust)
       IN  /\ Custs' = custs
           /\ Queue' = p.q.Queue
           /\ sjf' = [q_head |-> p.q.q_head, q_last |-> p.q.q_last]
           /\ pc' = IF p.fault THEN "fault" ELSE pc
  /\ order' = Append(order, Malloc(DOMAIN Queue))
  /\ ret' = NoRet
  /\ UNCHANGED <<event_node, top_event, last_event, accum_resp_time,
                 num_resp_time, sim_length, clock, busy, started, resp>>

\* Takoff_queue; the customer taken is then freed
Q_Takoff ==
  /\ pc = "start"
  /\ sjf.q_head # NULL
  /\ LET r == Takoff_queue(ReadyQueue)
         k == Custs[r.index].CPU_time
     IN  /\ Queue' = r.q.Queue
         /\ sjf' = [q_head |-> r.q.q_head, q_last |-> r.q.q_last]
         /\ Custs' = Free(Custs, r.index)
         /\ ret' = Seen(sjf.q_head, k,
                        {b \in Range(order) :
                           Burst(ReadyQueue, Custs, b) = k})
         /\ order' = Without(order, sjf.q_head)
  /\ UNCHANGED <<pc, event_node, top_event, last_event, accum_resp_time,
                 num_resp_time, sim_length, clock, busy, started, resp>>

NextQueue == Q_Puton \/ Q_Takoff

SpecQueue == Init /\ [][NextQueue]_vars

(* ------------------------------------------------------------------------ *)
(* Properties                                                               *)
(* ------------------------------------------------------------------------ *)
\* the event list read from top_event along the forward links
EventChain == Forward(event_node, top_event, Cardinality(DOMAIN event_node))

\* the ready queue read from q_head along the next links
QueueChain == Next_links(Queue, sjf.q_head, Cardinality(DOMAIN Queue))

\* C1: whenever start_service has just run, the burst of the customer it took
\* off the queue is no larger than the burst of any customer that was waiting
\* in the queue when Takoff_queue was called (the customer taken among them).
C1_ShortestJobStarts ==
  started.on => /\ started.burst \in started.waiting
                /\ \A b \in started.waiting : started.burst <= b

\* service started from a queue holding customers of at least two bursts
C1_Witness == started.on /\ Cardinality(started.waiting) >= 2

\* C2: the events that were inserted and not removed are exactly the nodes
\* reached from top_event along the forward links, the chain ends at
\* last_event, and ev_time is non-decreasing along it.
C2_TimelineSorted ==
  /\ Len(EventChain) = Len(order)
  /\ Range(EventChain) = Range(order)
  /\ IF EventChain = <<>> THEN last_event = NULL
     ELSE /\ EventChain[Len(EventChain)] = last_event
          /\ event_node[last_event].forward = NULL
  /\ \A i \in 1..(Len(EventChain) - 1) :
       event_node[EventChain[i]].ev_time <= event_node[EventChain[i + 1]].ev_time

\* a removal has left at least two events of different times in the list
C2_Witness ==
  /\ ret.on
  /\ Len(EventChain) >= 2
  /\ event_node[top_event].ev_time < event_node[last_event].ev_time

\* C3: of two pending events with equal ev_time the one inserted first stands
\* first in the list, and an event returned by Remove_event had no pending
\* event of the same ev_time that was inserted before it.
C3_TimelineFIFO ==
  /\ \A i, j \in 1..Len(EventChain) :
       (i < j /\ event_node[EventChain[i]].ev_time = event_node[EventChain[j]].ev_time)
         => Place(order, EventChain[i]) < Place(order, EventChain[j])
  /\ ret.on => ret.older = {}

\* Remove_event returned an event while a later-inserted event of the same
\* time and an event of another time were pending
C3_Witness ==
  /\ ret.on /\ ret.younger # {}
  /\ \E a \in DOMAIN event_node : event_node[a].ev_time # ret.key

\* C4: the customers that were put on the queue and not taken off are exactly
\* the nodes reached from q_head along the next links, q_last is the last of
\* them, and the burst is non-decreasing along the chain.
C4_QueueSorted ==
  /\ Len(QueueChain) = Len(order)
  /\ Range(QueueChain) = Range(order)
  /\ IF QueueChain = <<>> THEN sjf.q_head = NULL /\ sjf.q_last = NULL
     ELSE /\ QueueChain[Len(QueueChain)] = sjf.q_last
          /\ Queue[sjf.q_last].next = NULL
  /\ \A i \in 1..(Len(QueueChain) - 1) :
       Burst(ReadyQueue, Custs, QueueChain[i])
         <= Burst(ReadyQueue, Custs, QueueChain[i + 1])

\* a customer has been taken off and at least two customers of different
\* bursts are left in the queue
C4_Witness ==
  /\ ret.on
  /\ Len(QueueChain) >= 2
  /\ Burst(ReadyQueue, Custs, sjf.q_head) < Burst(ReadyQueue, Custs, sjf.q_last)

\* C5: of two waiting customers with equal burst the one enqueued first stands
\* first in the queue, and a customer returned by Takoff_queue had no waiting
\* customer of the same burst that was enqueued before it.
C5_QueueFIFO ==
  /\ \A i, j \in 1..Len(QueueChain) :
       (i < j /\ Burst(ReadyQueue, Custs, QueueChain[i])
                   = Burst(ReadyQueue, Custs, QueueChain[j]))
         => Place(order, QueueChain[i]) < Place(order, QueueChain[j])
  /\ ret.on => ret.older = {}

\* Takoff_queue returned a customer while a later-enqueued customer of the
\* same burst and a customer of another burst were waiting
C5_Witness ==
  /\ ret.on /\ ret.younger # {}
  /\ \E a \in DOMAIN Queue : Burst(ReadyQueue, Custs, a) # ret.key

\* the pending events of a kind
Pending(kind) == {a \in Range(EventChain) : event_node[a].ev_type = kind}

\* main is between two turns of its loop, or has left it
BetweenDispatches == pc \in {"loop", "done"}

\* the customers that were taken off the queue and have not departed: records
\* in use that no pending ARRIVAL and no queue node refers to
InService ==
  {c \in DOMAIN Custs :
     /\ \A a \in Pending(ARRIVAL) : event_node[a].cust_index # c
     /\ \A n \in Range(QueueChain) : Queue[n].cust_index # c}

\* the customer and the time of each pending COMPLETE event
Departures ==
  {[cust |-> event_node[a].cust_index, time |-> event_node[a].ev_time] :
     a \in Pending(COMPLETE)}

\* C6: between two dispatches busy is TRUE exactly when some customer has
\* been taken off the ready queue and its departure has not been processed
\* (the customers of the pending COMPLETE events are those customers), and
\* busy is FALSE exactly when the ready queue is empty and no COMPLETE event
\* is pending.
C6_WorkConservation ==
  BetweenDispatches =>
    /\ busy <=> InService # {}
    /\ InService = {d.cust : d \in Departures}
    /\ ~busy <=> (QueueChain = <<>> /\ Pending(COMPLETE) = {})

\* a departure found the queue empty and left the server idle
C6_Witness == pc = "loop" /\ ~busy /\ resp.on /\ num_resp_time >= 1

\* C7: at most one COMPLETE event is pending in any state, and a turn of the
\* loop that processes an ARRIVAL while a COMPLETE event is pending leaves
\* that COMPLETE event, and no other, pending.
C7_NonPreemptive ==
  /\ [](Cardinality(Pending(COMPLETE)) <= 1)
  /\ [][(pc = "loop" /\ TopType = ARRIVAL /\ Departures # {})
          => Departures' = Departures]_vars

\* a customer is in service while a customer with a shorter burst waits
C7_Witness ==
  /\ pc = "loop"
  /\ \E a \in Pending(COMPLETE) : \E n \in Range(QueueChain) :
       Burst(ReadyQueue, Custs, n) < Custs[event_node[a].cust_index].CPU_time

\* C8: the clock never decreases.
C8_ClockMonotone == [][clock' >= clock]_vars

\* C9: the response time computed by depart is at least 0.
C9_ResponseNonNegative == resp.on => resp.temp >= 0

\* the number of owners of customer c: pending ARRIVAL events, queue nodes
\* and pending COMPLETE events that refer to it
Owners(c) ==
  Cardinality({a \in Pending(ARRIVAL) : event_node[a].cust_index = c})
  + Cardinality({n \in Range(QueueChain) : Queue[n].cust_index = c})
  + Cardinality({a \in Pending(COMPLETE) : event_node[a].cust_index = c})

\* C10: between two dispatches every customer record in use has exactly one
\* owner, and every owner refers to a record in use.
C10_SingleOwner ==
  BetweenDispatches =>
    /\ \A c \in DOMAIN Custs : Owners(c) = 1
    /\ \A a \in Pending(ARRIVAL) \cup Pending(COMPLETE) :
         event_node[a].cust_index \in DOMAIN Custs
    /\ \A n \in Range(QueueChain) : Queue[n].cust_index \in DOMAIN Custs

\* a record has been destroyed and records are owned in all three ways
C10_Witness ==
  /\ pc = "loop" /\ num_resp_time >= 1
  /\ Pending(ARRIVAL) # {} /\ Pending(COMPLETE) # {} /\ QueueChain # <<>>

\* C11: every run of main in which the turns of the loop keep being made
\* reaches the end of the simulation: main removes the EOS event, calls
\* Process_statistics and stops (or the run reaches the bound on the queue,
\* where the model says nothing).
C11_Terminates == <>(pc = "done" \/ AtBound)

\* C15: a turn that processes a COMPLETE event adds exactly temp = clock -
\* arrive_time to accum_resp_time and exactly 1 to num_resp_time, and every
\* other turn leaves both unchanged.
C15_AccumulatorExact ==
  [][IF pc = "loop" /\ TopType = COMPLETE
       THEN /\ accum_resp_time' = accum_resp_time + resp'.temp
            /\ num_resp_time' = num_resp_time + 1
       ELSE /\ accum_resp_time' = accum_resp_time
            /\ num_resp_time' = num_resp_time]_vars

\* the customers whose ARRIVAL has been processed: their burst has been drawn
HasArrived(c) == \A a \in Pending(ARRIVAL) : event_node[a].cust_index # c

\* C16: every value expon returns is a strictly positive integer: the burst
\* of every customer that has arrived is at least 1.
C16_ExponPositive ==
  \A c \in DOMAIN Custs : HasArrived(c) => Custs[c].CPU_time >= 1

\* the next turn processes an ARRIVAL
ArrivalTurn == pc = "loop" /\ top_event # NULL /\ TopType = ARRIVAL

\* the last turn put a customer into service from an idle server on its
\* arrival, and the next turn processes an ARRIVAL of the same clock value
SecondOfTick ==
  /\ ArrivalTurn /\ started.on /\ ~resp.on
  /\ event_node[top_event].ev_time = clock

\* the customers waiting in the ready queue
Waiting == {Queue[n].cust_index : n \in Range(QueueChain)}

C14_IdleUntilArrival ==
  /\ []((resp.on /\ resp.empty) =>
          (~busy /\ ~started.on /\ Pending(COMPLETE) = {}))
  /\ [][(pc = "loop" /\ ~busy /\ ~ArrivalTurn) =>
          (~busy' /\ Pending(COMPLETE)' = {})]_vars

\* a departure has found the queue empty and the next turn is an ARRIVAL
C14_Witness == resp.on /\ resp.empty /\ ~busy /\ ArrivalTurn

\* C17: while main is in its loop the event list is not empty when
\* Remove_event is called: exactly one EOS event is pending, its ev_time is
\* sim_length and it refers to no customer; once main has left the loop no
\* EOS event is pending.
C17_EOSPending ==
  /\ pc = "loop" =>
       /\ top_event # NULL /\ last_event # NULL
       /\ Cardinality(Pending(EOS)) = 1
       /\ \A a \in Pending(EOS) : /\ event_node[a].ev_time = sim_length
                                  /\ event_node[a].cust_index = NULL
  /\ pc = "done" => Pending(EOS) = {}

\* customers have left and the EOS event is the next event to be removed,
\* with an ARRIVAL pending behind it
C17_Witness ==
  /\ pc = "loop" /\ num_resp_time >= 1
  /\ TopType = EOS /\ Pending(ARRIVAL) # {}

\* C18: whenever start_service has run, from arrive or from depart, the
\* ready queue held at least one customer when Takoff_queue was called and
\* Takoff_queue returned a customer; Gen_departure never reads through a
\* NULL customer.
C18_NoQueueUnderflow ==
  /\ started.on => (started.index # NULL /\ started.waiting # {})
  /\ pc # "fault"

\* depart has found a customer waiting and has started its service
C18_Witness == started.on /\ resp.on /\ ~resp.empty /\ started.index # NULL

\* the node the last call of Puton_queue created
Newest == order[Len(order)]

\* C19: Puton_queue never reads through a NULL following_node: its scan
\* links the new node into the queue before it runs off the end, so after
\* every call the new node is one of the nodes reached from q_head, and it
\* is followed by a node whenever it is not q_last.
C19_ScanStopsInside ==
  /\ pc # "fault"
  /\ (~ret.on /\ order # <<>>) =>
       /\ Newest \in Range(QueueChain)
       /\ Newest # sjf.q_last => Queue[Newest].next \in Range(QueueChain)

\* the scan has moved on at least once before it inserted: the new node
\* stands third or later in the queue and is not the last node
C19_Witness ==
  /\ ~ret.on /\ Len(QueueChain) >= 4
  /\ Newest # sjf.q_last
  /\ \E i \in 3..Len(QueueChain) : QueueChain[i] = Newest

C21_NothingAtOrAfterEnd ==
  /\ (pc = "loop" /\ top_event # NULL /\ TopType # EOS) =>
       event_node[top_event].ev_time < sim_length
  /\ BetweenDispatches => clock <= sim_length
  /\ resp.on => clock < sim_length
  /\ pc = "done" =>
       /\ clock = sim_length
       /\ \A a \in Range(EventChain) : event_node[a].ev_time >= sim_length

\* main has left the loop, customers were counted, and the departure of the
\* customer in service, due exactly at sim_length, was not processed
C21_Witness ==
  /\ pc = "done" /\ num_resp_time >= 1
  /\ \E a \in Pending(COMPLETE) : event_node[a].ev_time = sim_length

\* C22: when main has processed the EOS event at least one customer has been
\* counted: num_resp_time, which Process_statistics divides by, is at least 1.
C22_DivisorNonZero == pc = "done" => num_resp_time >= 1

====
